---------------------------- MODULE Spec2Model ----------------------------
(***************************************************************************)
(* A model of the RegExpr automaton pipeline (src/src/automaton.rs,        *)
(* src/src/engine.rs, src/src/parser.rs):                                  *)
(*   expression tree -> build_nfa -> merge_by_epsilon -> build_dfa         *)
(*                   -> Engine::new -> Engine::match_string                *)
(*                                                                         *)
(* Nodes are their ids (usize).  A char is a one-letter string of          *)
(* Alphabet; Option<char> is a char or None.  Sets (HashSet, BTreeSet) are *)
(* TLA+ sets; where the code iterates a BTreeSet the model iterates the    *)
(* sequence sorted by the derived Ord.                                     *)
(***************************************************************************)
EXTENDS Integers, Sequences, FiniteSets, TLC

(***************************************************************************)
(* Bounds of the model.                                                    *)
(***************************************************************************)
\* Largest expression tree (number of RegExpr constructors) Init draws.
MaxSize == 5
\* Longest Vec<RegExpr> inside a Sequence Init draws.
MaxSeqLen == 2
\* Longest input string handed to match_string.
MaxStrLen == 2
\* Largest node id in the subsets handed to new_node, and the number of
\* new_node calls, in SpecAlloc.
MaxNodeId == 2
MaxCalls == 3
\* Largest node id, and the most edges and acceptors, of the graphs SpecMerge
\* hands to merge_by_epsilon.
MaxGraphNode == 2
MaxEdges == 3
MaxAcceptors == 1
\* The largest DFANode id and the most edges of the DFAs handed straight to
\* Engine::new.
MaxDfaNode == 1
MaxDfaEdges == 3
\* How many build_nfa calls are made on one NodeAllocator.
MaxBuildCalls == 2
\* The longest input handed to parse.
MaxInputLen == 4
\* The largest node of the sets handed to power_set.
MaxPowerNode == 3

Alphabet == <<"a", "b">>
Chars == {Alphabet[i] : i \in 1..Len(Alphabet)}
\* Option<char>::None, the condition of an epsilon edge.
None == "None"

\* char's Ord (code point order), and Option<char>'s derived Ord: None first.
CharRank(c) == IF c = None THEN 0 ELSE CHOOSE i \in 1..Len(Alphabet) : Alphabet[i] = c

SetOfSeq(s) == {s[i] : i \in 1..Len(s)}

(***************************************************************************)
(* parser.rs: enum RegExpr.  Every variant is a record of the same shape:  *)
(* tag, chars (the char of Character, the Vec<char> of Range) and kids     *)
(* (the boxed sub-expressions, the Vec<RegExpr> of Sequence).              *)
(***************************************************************************)
Character(c) == [tag |-> "Character", chars |-> <<c>>, kids |-> <<>>]
Range(cs) == [tag |-> "Range", chars |-> cs, kids |-> <<>>]
Repeation(e) == [tag |-> "Repeation", chars |-> <<>>, kids |-> <<e>>]
Branch(l, r) == [tag |-> "Branch", chars |-> <<>>, kids |-> <<l, r>>]
Sequence(v) == [tag |-> "Sequence", chars |-> <<>>, kids |-> v]

\* The Vec<char> values of Range that Init draws: the empty list and a
\* two-letter list.
RangeLists == {<<>>, <<"a", "b">>}

Leaves ==
    {Character(c) : c \in Chars} \cup {Range(cs) : cs \in RangeLists}
        \cup {Sequence(<<>>)}

RECURSIVE ExprsOfSize(_), ListsOfSize(_, _)
\* The expression trees with exactly n constructors.
ExprsOfSize(n) ==
    IF n = 0 THEN {}
    ELSE IF n = 1 THEN Leaves
    ELSE {Repeation(e) : e \in ExprsOfSize(n - 1)}
         \cup UNION {{Branch(l, r) : l \in ExprsOfSize(i), r \in ExprsOfSize(n - 1 - i)}
                        : i \in 1..(n - 2)}
         \cup UNION {{Sequence(v) : v \in ListsOfSize(k, n - 1)} : k \in 1..MaxSeqLen}
\* The lists of k expression trees with n constructors in all.
ListsOfSize(k, n) ==
    IF k = 0 THEN (IF n = 0 THEN {<<>>} ELSE {})
    ELSE UNION {{Append(v, e) : v \in ListsOfSize(k - 1, n - m), e \in ExprsOfSize(m)}
                   : m \in 1..n}

Exprs == UNION {ExprsOfSize(n) : n \in 1..MaxSize}

RECURSIVE StringsOfLen(_)
StringsOfLen(n) ==
    IF n = 0 THEN {<<>>}
    ELSE {Append(s, c) : s \in StringsOfLen(n - 1), c \in Chars}
Strings == UNION {StringsOfLen(n) : n \in 0..MaxStrLen}

(***************************************************************************)
(* automaton.rs: NodeAllocator, Node, Edge, Graph.                         *)
(***************************************************************************)
\* NodeAllocator::new: an empty Vec<Node>.
NodeAllocator_new == <<>>

\* Node::new handing out the id 0 whatever has been allocated.
Node_new_reusing(alloc) == [node |-> 0, alloc |-> Append(alloc, 0)]

\* Node::new: the new node's id is the Vec's length; it is pushed and
\* returned.  The result is the node and the allocator after the call.
Node_new(alloc) ==
    LET id == Len(alloc)
    IN  [node |-> id, alloc |-> Append(alloc, id)]

Edge(condition, from, to) == [condition |-> condition, from |-> from, to |-> to]

\* Edge's derived Ord: by condition, then from, then to.
EdgeLess(e, f) ==
    \/ CharRank(e.condition) < CharRank(f.condition)
    \/ /\ e.condition = f.condition
       /\ \/ e.from < f.from
          \/ e.from = f.from /\ e.to < f.to

\* Graph::new: no edges, no acceptors.
Graph_new(start) == [start |-> start, edges |-> {}, acceptors |-> {}]

\* Graph::add_edge inserting nothing.
add_edge_dropped(graph, condition, from, to) == graph

\* Graph::add_edge
add_edge(graph, condition, from, to) ==
    [graph EXCEPT !.edges = @ \cup {Edge(condition, from, to)}]

\* The loop of a Sequence without its add_edge: the sub-graphs' edges are
\* taken, no epsilon edge links them.
chain_unlinked(nfas, ret, current_end) ==
    [ret |-> [ret EXCEPT !.edges = @ \cup UNION {nfas[i].edges : i \in 1..Len(nfas)}],
     current_end |-> IF nfas = <<>> THEN current_end ELSE nfas[Len(nfas)].acceptors]

RECURSIVE build_nfa(_, _), build_nfas(_, _), chain(_, _, _)

\* The map of build_nfa over a Sequence's list (line 257): the sub-graphs in
\* order, the allocator threaded through.
build_nfas(v, alloc) ==
    IF v = <<>> THEN [nfas |-> <<>>, alloc |-> alloc]
    ELSE LET first == build_nfa(Head(v), alloc)
             rest == build_nfas(Tail(v), first.alloc)
         IN  [nfas |-> <<first.graph>> \o rest.nfas, alloc |-> rest.alloc]

\* The loop of lines 264-270: ret takes each sub-graph's edges and an epsilon
\* edge from every node of current_end to the sub-graph's start.
chain(nfas, ret, current_end) ==
    IF nfas = <<>> THEN [ret |-> ret, current_end |-> current_end]
    ELSE LET nfa == Head(nfas)
             linked == [ret EXCEPT !.edges =
                            @ \cup nfa.edges
                              \cup {Edge(None, acceptor, nfa.start) : acceptor \in current_end}]
         IN  chain(Tail(nfas), linked, nfa.acceptors)

\* build_nfa: the graph of an expression and the allocator after the call.
build_nfa(expr, alloc) ==
    CASE expr.tag = "Character" ->
            LET s == Node_new(alloc)
                e == Node_new(s.alloc)
                graph == add_edge(Graph_new(s.node), expr.chars[1], s.node, e.node)
            IN  [graph |-> [graph EXCEPT !.acceptors = @ \cup {e.node}], alloc |-> e.alloc]
      [] expr.tag = "Sequence" ->
            LET s == Node_new(alloc)
                subs == build_nfas(expr.kids, s.alloc)
                e == Node_new(subs.alloc)
                chained == chain(subs.nfas, Graph_new(s.node), {s.node})
                ret == [chained.ret EXCEPT !.edges =
                            @ \cup {Edge(None, acceptor, e.node) : acceptor \in chained.current_end}]
            IN  [graph |-> [ret EXCEPT !.acceptors = @ \cup {e.node}], alloc |-> e.alloc]
      [] expr.tag = "Branch" ->
            LET lhs == build_nfa(expr.kids[1], alloc)
                rhs == build_nfa(expr.kids[2], lhs.alloc)
                s == Node_new(rhs.alloc)
                e == Node_new(s.alloc)
            IN  [graph |->
                    [start |-> s.node,
                     edges |-> lhs.graph.edges \cup rhs.graph.edges
                                 \cup {Edge(None, s.node, lhs.graph.start),
                                       Edge(None, s.node, rhs.graph.start)}
                                 \cup {Edge(None, acceptor, e.node) : acceptor \in lhs.graph.acceptors}
                                 \cup {Edge(None, acceptor, e.node) : acceptor \in rhs.graph.acceptors},
                     acceptors |-> {e.node}],
                 alloc |-> e.alloc]
      [] expr.tag = "Range" ->
            LET s == Node_new(alloc)
                e == Node_new(s.alloc)
            IN  [graph |->
                    [start |-> s.node,
                     edges |-> {Edge(c, s.node, e.node) : c \in SetOfSeq(expr.chars)},
                     acceptors |-> {e.node}],
                 alloc |-> e.alloc]
      [] expr.tag = "Repeation" ->
            LET sub == build_nfa(expr.kids[1], alloc)
                acceptors == sub.graph.acceptors \cup {sub.graph.start}
                new_edges == UNION {{Edge(None, sub.graph.start, acceptor),
                                     Edge(None, acceptor, sub.graph.start)}
                                       : acceptor \in acceptors}
            IN  [graph |->
                    [start |-> sub.graph.start,
                     edges |-> sub.graph.edges \cup new_edges,
                     acceptors |-> acceptors],
                 alloc |-> sub.alloc]

(***************************************************************************)
(* automaton.rs: merge_by_epsilon and its helpers.                         *)
(***************************************************************************)
RECURSIVE SortedNodes(_), SortedEdges(_)
\* The nodes of a set in ascending order (BTreeSet<Node> iteration; also the
\* order in which the model walks a HashSet<Node>).
SortedNodes(S) ==
    IF S = {} THEN <<>>
    ELSE LET m == CHOOSE x \in S : \A y \in S : x <= y
         IN  <<m>> \o SortedNodes(S \ {m})
\* The edges of a set in BTreeSet<Edge> iteration order.
SortedEdges(S) ==
    IF S = {} THEN <<>>
    ELSE LET m == CHOOSE x \in S : \A y \in S : x = y \/ EdgeLess(x, y)
         IN  <<m>> \o SortedEdges(S \ {m})

\* Lines 409-415: for every node with an epsilon edge, the targets of its
\* epsilon edges.
successors_through_epsilon(graph) ==
    LET eps == {e \in graph.edges : e.condition = None}
    IN  [n \in {e.from : e \in eps} |-> {e.to : e \in {f \in eps : f.from = n}}]

\* merge_by_epsilon finding no character edge to carry over.
successors_through_non_epsilon_none(graph) == <<>>

\* Lines 416-420: for every node with a character edge, the (char, target)
\* pairs of its character edges.
successors_through_non_epsilon(graph) ==
    LET non == {e \in graph.edges : e.condition # None}
    IN  [n \in {e.from : e \in non} |->
            {<<e.condition, e.to>> : e \in {f \in non : f.from = n}}]

\* merge_by_epsilon copying no edge of the input into ret.
copied_edges_none(graph) == {}

\* merge_by_epsilon copying every edge of the input into ret, epsilon edges
\* too.
copied_edges_all(graph) == graph.edges

\* Lines 416-421: the edges the first loop of merge_by_epsilon inserts into
\* ret, the Some(c) ones.
copied_edges(graph) == {e \in graph.edges : e.condition # None}

\* The visited test of reachable_through_epsilon without its effect: no node
\* counts as visited.
reachable_seen_never(visited_set, node) == FALSE

\* The visited test of reachable_through_epsilon taking every node for
\* visited.
reachable_seen_always(visited_set, node) == TRUE

\* Line 384: visited.contains(current) in reachable_through_epsilon.
reachable_seen(visited_set, node) == node \in visited_set

\* Line 229: visited.contains(current) in traverse_node.
traverse_seen(visited_set, node) == node \in visited_set

RECURSIVE reachable_through_epsilon(_, _, _), extend_reachable(_, _, _, _)
\* reachable_through_epsilon: the set returned and the visited set after the
\* call (visited is a &mut shared by the whole recursion).
reachable_through_epsilon(through_epsilon, current, visited) ==
    IF reachable_seen(visited, current) THEN [nodes |-> {}, visited |-> visited]
    ELSE IF current \in DOMAIN through_epsilon
    THEN extend_reachable(through_epsilon, SortedNodes(through_epsilon[current]),
                          through_epsilon[current], visited \cup {current})
    ELSE [nodes |-> {}, visited |-> visited \cup {current}]
\* The loop of lines 392-395 over the nodes still to follow.
extend_reachable(through_epsilon, todo, accumulator, visited) ==
    IF todo = <<>> THEN [nodes |-> accumulator, visited |-> visited]
    ELSE LET extension == reachable_through_epsilon(through_epsilon, Head(todo), visited)
         IN  extend_reachable(through_epsilon, Tail(todo),
                              accumulator \cup extension.nodes, extension.visited)

RECURSIVE traverse_node(_, _, _, _), traverse_edges(_, _, _, _)
\* Graph::traverse_node: the nodes f is called on, in call order, and the
\* visited set after the call.
traverse_node(graph, current, visited, order) ==
    IF traverse_seen(visited, current) THEN [order |-> order, visited |-> visited]
    ELSE traverse_edges(graph, SortedEdges({e \in graph.edges : e.from = current}),
                        visited \cup {current}, Append(order, current))
\* The loop of lines 237-239 over the edges leaving the current node.
traverse_edges(graph, todo, visited, order) ==
    IF todo = <<>> THEN [order |-> order, visited |-> visited]
    ELSE LET below == traverse_node(graph, Head(todo).to, visited, order)
         IN  traverse_edges(graph, Tail(todo), below.visited, below.order)

\* Lines 448-451: what the closure adds to ret.acceptors when the visited
\* node is itself an acceptor of the input.
own_acceptors(graph, node, through_epsilon) ==
    IF node \in graph.acceptors THEN {node} \cup through_epsilon ELSE {}

\* The closure making a node of its own: it adds to ret.acceptors a node one
\* past the largest node of the input.
merge_found_allocating(graph, non_eps, ret, node, through_epsilon) ==
    LET nodes == {graph.start} \cup {e.from : e \in graph.edges} \cup {e.to : e \in graph.edges}
        largest == CHOOSE m \in nodes : \A n \in nodes : n <= m
    IN  [ret EXCEPT !.acceptors = @ \cup {largest + 1}]

\* The closure passed to traverse_node from line 430 on: what it adds to ret
\* for one node, given the through_epsilon computed for it.
merge_found(graph, non_eps, ret, node, through_epsilon) ==
    LET pairs == UNION {non_eps[m] : m \in through_epsilon \cap DOMAIN non_eps}
        via == IF through_epsilon \cap graph.acceptors # {} THEN {node} ELSE {}
    IN  [ret EXCEPT !.edges = @ \cup {Edge(p[1], node, p[2]) : p \in pairs},
                    !.acceptors = @ \cup via \cup own_acceptors(graph, node, through_epsilon)]

\* The closure passed to traverse_node (lines 425-452), called on one node.
merge_visit(graph, eps, non_eps, ret, node) ==
    merge_found(graph, non_eps, ret, node, reachable_through_epsilon(eps, node, {}).nodes)

RECURSIVE merge_visits(_, _, _, _, _)
merge_visits(graph, eps, non_eps, ret, order) ==
    IF order = <<>> THEN ret
    ELSE merge_visits(graph, eps, non_eps,
                      merge_visit(graph, eps, non_eps, ret, Head(order)), Tail(order))

\* merge_by_epsilon: the graph returned.  The allocator argument is unused.
merge_by_epsilon(graph) ==
    LET eps == successors_through_epsilon(graph)
        non_eps == successors_through_non_epsilon(graph)
        ret == [Graph_new(graph.start) EXCEPT !.edges = copied_edges(graph)]
        order == traverse_node(graph, graph.start, {}, <<>>).order
    IN  merge_visits(graph, eps, non_eps, ret, order)

(***************************************************************************)
(* automaton.rs: PowerSet, the iterator behind succeeding_subsets.         *)
(***************************************************************************)
\* power_set: the iterator's initial state.
power_set(nodes) == [all_nodes |-> nodes, current |-> <<>>]

min_node(ps) == CHOOSE x \in ps.all_nodes : \A y \in ps.all_nodes : x <= y
max_node(ps) == CHOOSE x \in ps.all_nodes : \A y \in ps.all_nodes : y <= x
\* The first node after `node` in ascending order.
next_node(ps, node) ==
    LET later == {n \in ps.all_nodes : n > node}
    IN  CHOOSE x \in later : \A y \in later : x <= y

\* PowerSet::next: whether an item is returned (Some), the item, and the
\* iterator after the call.  Both branches of the loop body leave the loop
\* (break or return), so only its first iteration, on current[0], ever runs.
PowerSet_next(ps) ==
    IF ps.current = <<>>
    THEN [some |-> TRUE, item |-> {min_node(ps)},
          ps |-> [ps EXCEPT !.current = <<min_node(ps)>>]]
    ELSE LET node == ps.current[1]
         IN  IF node # max_node(ps)
             THEN LET next == [ps.current EXCEPT ![1] = next_node(ps, node)]
                  IN  [some |-> TRUE, item |-> SetOfSeq(next),
                       ps |-> [ps EXCEPT !.current = next]]
             ELSE LET reset == [ps.current EXCEPT ![1] = min_node(ps)]
                  IN  IF Len(reset) < Cardinality(ps.all_nodes)
                      THEN LET next == Append(reset, min_node(ps))
                           IN  [some |-> TRUE, item |-> SetOfSeq(next),
                                ps |-> [ps EXCEPT !.current = next]]
                      ELSE [some |-> FALSE, item |-> {}, ps |-> ps]

RECURSIVE PowerSet_items(_)
\* The items the iterator returns, in order, until it returns None.
PowerSet_items(ps) ==
    LET r == PowerSet_next(ps)
    IN  IF r.some THEN <<r.item>> \o PowerSet_items(r.ps) ELSE <<>>

(***************************************************************************)
(* automaton.rs: DFAAllocator, DFANode, DFAEdge, DFA.  A DFANode is its    *)
(* id; DFAAllocator.nodes is a function from the ids to the sets of nodes. *)
(***************************************************************************)
DFAAllocator_new == <<>>

\* new_node without the lookup of lines 113-115: every call registers a
\* fresh DFANode.
new_node_always_fresh(dfa_alloc, nodes) ==
    LET len == Cardinality(DOMAIN dfa_alloc)
    IN  [node |-> len, alloc |-> dfa_alloc @@ (len :> nodes)]

\* DFAAllocator::new_node: the DFANode returned and the allocator after.
new_node(dfa_alloc, nodes) ==
    IF \E d \in DOMAIN dfa_alloc : dfa_alloc[d] = nodes
    THEN [node |-> CHOOSE d \in DOMAIN dfa_alloc : dfa_alloc[d] = nodes,
          alloc |-> dfa_alloc]
    ELSE LET len == Cardinality(DOMAIN dfa_alloc)
         IN  [node |-> len, alloc |-> dfa_alloc @@ (len :> nodes)]

DFAEdge(condition, from, to) == [condition |-> condition, from |-> from, to |-> to]

RECURSIVE register_all(_, _, _)
\* .map(|nodes| alloc.new_node(nodes)) over the filtered items (line 464):
\* the DFANodes returned and the allocator after.
register_all(items, dfa_alloc, found) ==
    IF items = <<>> THEN [found |-> found, alloc |-> dfa_alloc]
    ELSE LET r == new_node(dfa_alloc, Head(items))
         IN  register_all(Tail(items), r.alloc, found \cup {r.node})

RECURSIVE succeeding_edges(_, _, _, _, _)
\* The loop of succeeding_subsets over the edges (lines 462-466): subsets is
\* the HashMap<char, HashSet<DFANode>>; unwrap_none tells that
\* edge.condition.unwrap() met None, which panics.
succeeding_edges(todo, start, all_nodes, dfa_alloc, subsets) ==
    IF todo = <<>>
    THEN [subsets |-> subsets, alloc |-> dfa_alloc, unwrap_none |-> FALSE]
    ELSE LET edge == Head(todo)
         IN  IF edge.from \notin start
             THEN succeeding_edges(Tail(todo), start, all_nodes, dfa_alloc, subsets)
             ELSE IF edge.condition = None
             THEN [subsets |-> subsets, alloc |-> dfa_alloc, unwrap_none |-> TRUE]
             ELSE LET items == SelectSeq(PowerSet_items(power_set(all_nodes)),
                                         LAMBDA nodes : edge.to \in nodes)
                      r == register_all(items, dfa_alloc, {})
                      c == edge.condition
                      old == IF c \in DOMAIN subsets THEN subsets[c] ELSE {}
                      grown == [k \in DOMAIN subsets \cup {c} |->
                                    IF k = c THEN old \cup r.found ELSE subsets[k]]
                  IN  succeeding_edges(Tail(todo), start, all_nodes, r.alloc, grown)

\* succeeding_subsets
succeeding_subsets(start, edges, all_nodes, dfa_alloc) ==
    succeeding_edges(SortedEdges(edges), start, all_nodes, dfa_alloc, <<>>)

\* The edges recorded as leaving the successor they lead to.
successor_edges_from_target(from, subsets) ==
    UNION {{DFAEdge(c, to, to) : to \in subsets[c]} : c \in DOMAIN subsets}

\* Lines 492-494: a DFAEdge from `from` for every character of the successor
\* map and every DFANode the map holds for it.
successor_edges(from, subsets) ==
    UNION {{DFAEdge(c, from, to) : to \in subsets[c]} : c \in DOMAIN subsets}

\* The new queue without the visited test of line 495.
new_queue_unfiltered(successors, visited) == successors

\* Lines 495-498: the successors that go on the new queue.
new_queue(successors, visited) == successors \ visited

(***************************************************************************)
(* engine.rs: Engine.                                                      *)
(***************************************************************************)
\* Engine::new without its assert!: no DFA makes it panic.
Engine_new_panics_never(dfa) == FALSE

\* The assert! of Engine::new fails: some insert finds the key taken, which
\* is when two edges of the DFA share from and condition.
Engine_new_panics(dfa) ==
    \E e, f \in dfa.edges : e # f /\ e.from = f.from /\ e.condition = f.condition

\* Engine::new when no assert fails: edges maps a DFANode to the map from a
\* char to the DFANode the edge leads to.
Engine_new(dfa) ==
    [start |-> dfa.start,
     edges |-> [d \in {e.from : e \in dfa.edges} |->
                  [c \in {e.condition : e \in {f \in dfa.edges : f.from = d}} |->
                      (CHOOSE e \in dfa.edges : e.from = d /\ e.condition = c).to]]]

(***************************************************************************)
(* parser.rs: parse and the functions it calls.  An input is a sequence of *)
(* chars; a function returns Ok with the expression and the chars it left  *)
(* in the iterator, or Err with the line of its ParseError.                *)
(***************************************************************************)
ParserChars == Chars \cup {"*", "|", "(", ")", "[", "]"}

Ok(e, rest) == [ok |-> TRUE, line |-> 0, expr |-> e, rest |-> rest]
Err(line) == [ok |-> FALSE, line |-> line, expr |-> Sequence(<<>>), rest |-> <<>>]

\* input.rev()
Reverse(str) == [i \in 1..Len(str) |-> str[Len(str) + 1 - i]]

\* RegExpr::concatenated
concatenated(lhs, rhs) ==
    IF lhs.tag = "Sequence" THEN Sequence(Append(lhs.kids, rhs))
    ELSE Sequence(<<lhs, rhs>>)

RECURSIVE range_loop(_, _)
\* The loop of range (lines 52-58).
range_loop(in, buffer) ==
    IF in = <<>> THEN Err(56)
    ELSE IF Head(in) = "]" THEN Ok(Range(buffer), Tail(in))
    ELSE range_loop(Tail(in), Append(buffer, Head(in)))

range(in) == range_loop(in, <<>>)

RECURSIVE branch(_), sequence(_), paren_loop(_, _, _)

\* The loop of paren (lines 65-82) and the call of branch on the buffer.
paren_loop(in, level, buffer) ==
    IF in = <<>> THEN Err(80)
    ELSE IF Head(in) = "("
    THEN IF level = 0
         THEN LET r == branch(buffer)
              IN  IF r.ok THEN Ok(r.expr, Tail(in)) ELSE r
         ELSE paren_loop(Tail(in), level - 1, Append(buffer, "("))
    ELSE IF Head(in) = ")" THEN paren_loop(Tail(in), level + 1, Append(buffer, ")"))
    ELSE paren_loop(Tail(in), level, Append(buffer, Head(in)))

paren(in) == paren_loop(in, 0, <<>>)

simple_expr(in) ==
    IF in = <<>> THEN Err(91)
    ELSE IF Head(in) = "]" THEN range(Tail(in))
    ELSE IF Head(in) = ")" THEN paren(Tail(in))
    ELSE IF Head(in) \notin {"*", "|"} THEN Ok(Character(Head(in)), Tail(in))
    ELSE Err(91)

sequence(in) ==
    IF in = <<>> THEN Err(97)
    ELSE IF Head(in) = "*"
    THEN LET r == sequence(Tail(in))
         IN  IF r.ok THEN Ok(Repeation(r.expr), r.rest) ELSE r
    ELSE IF Head(in) = "|" THEN Ok(Sequence(<<>>), in)
    ELSE LET e == simple_expr(in)
         IN  IF ~e.ok THEN e
             ELSE IF e.rest # <<>>
             THEN LET r == sequence(e.rest)
                  IN  IF r.ok THEN Ok(concatenated(r.expr, e.expr), r.rest) ELSE r
             ELSE e

branch(in) ==
    LET e == sequence(in)
    IN  IF ~e.ok THEN e
        ELSE IF e.rest = <<>> THEN e
        ELSE IF Head(e.rest) = "|"
        THEN LET r == branch(Tail(e.rest))
             IN  IF r.ok THEN Ok(Branch(r.expr, e.expr), r.rest) ELSE r
        ELSE Err(122)

parse(in) == branch(Reverse(in))

(***************************************************************************)
(* The program state.                                                      *)
(***************************************************************************)
VARIABLES
    pc,         \* where the program stands
    expr,       \* the RegExpr handed to build_nfa
    alloc,      \* the NodeAllocator
    nfa,        \* the Graph build_nfa returned, the input of merge_by_epsilon
    merged,     \* the Graph merge_by_epsilon returned
    dfa_alloc,  \* the DFAAllocator
    all_nodes,  \* build_dfa's all_nodes
    visited,    \* build_dfa's visited
    queue,      \* build_dfa's queue
    dfa,        \* build_dfa's dfa
    engine,     \* the Engine
    s,          \* match_string's argument
    iter,       \* how many chars of s match_string has taken from s.chars()
    current,    \* match_string's current
    result,     \* what match_string returned
    calls,      \* the new_node calls made so far: argument and DFANode returned;
                \* or the build_nfa calls made so far on one NodeAllocator:
                \* the expression, the allocator before the call, the graph
    loops,      \* how many iterations build_dfa's while loop has made
    t_stack,    \* the traverse_node calls in progress: current and the edges
                \* the loop of lines 237-239 has still to follow
    t_visited,  \* traverse_node's visited
    t_arg,      \* the node traverse_node is being called on
    t_calls,    \* per node, how often traverse_node called f on it
    r_stack,    \* the reachable_through_epsilon calls in progress: current,
                \* the nodes the loop of lines 392-395 has still to follow,
                \* and accumulator
    r_visited,  \* reachable_through_epsilon's visited
    r_arg,      \* the node reachable_through_epsilon is being called on
    r_ret,      \* what the last reachable_through_epsilon call returned
    r_calls,    \* per node, how often the running closure computation got
                \* past the visited test on it
    steps,      \* how many steps merge_by_epsilon has made
    input,      \* the chars handed to parse
    parsed,     \* what parse returned
    power,      \* the PowerSet iterator
    yielded     \* the items the iterator has returned, in order

buildVars == <<expr, alloc, nfa>>
dfaVars == <<dfa_alloc, all_nodes, visited, queue, dfa, loops>>
engineVars == <<engine, s, iter, current, result>>

walkVars == <<t_stack, t_visited, t_arg, t_calls, r_stack, r_visited, r_arg, r_ret,
              r_calls, steps>>

parseVars == <<input, parsed>>

powerVars == <<power, yielded>>

vars == <<pc, buildVars, merged, dfaVars, engineVars, calls, walkVars, parseVars, powerVars>>

NoGraph == Graph_new(0)
NoDFA == [start |-> 0, edges |-> {}, acceptors |-> {}]
NoEngine == [start |-> 0, edges |-> <<>>]

\* No merge_by_epsilon call is being followed step by step.
WalkIdle ==
    /\ t_stack = <<>>
    /\ t_visited = {}
    /\ t_arg = 0
    /\ t_calls = <<>>
    /\ r_stack = <<>>
    /\ r_visited = {}
    /\ r_arg = 0
    /\ r_ret = {}
    /\ r_calls = <<>>
    /\ steps = 0

NoParse == Err(0)

\* parse has not been called.
ParseIdle ==
    /\ input = <<>>
    /\ parsed = NoParse

\* power_set has not been called.
PowerIdle ==
    /\ power = power_set({})
    /\ yielded = <<>>

\* main: a parsed expression and a fresh NodeAllocator and DFAAllocator.
Init ==
    /\ pc = "build_nfa"
    /\ expr \in Exprs
    /\ alloc = NodeAllocator_new
    /\ nfa = NoGraph
    /\ merged = NoGraph
    /\ dfa_alloc = DFAAllocator_new
    /\ all_nodes = {}
    /\ visited = {}
    /\ queue = {}
    /\ dfa = NoDFA
    /\ engine = NoEngine
    /\ s = <<>>
    /\ iter = 0
    /\ current = 0
    /\ result = FALSE
    /\ calls = <<>>
    /\ loops = 0
    /\ WalkIdle
    /\ ParseIdle
    /\ PowerIdle

\* let nfa = build_nfa(&expr, &mut alloc)
BuildNfa ==
    /\ pc = "build_nfa"
    /\ LET built == build_nfa(expr, alloc)
       IN  /\ nfa' = built.graph
           /\ alloc' = built.alloc
    /\ pc' = "merge_by_epsilon"
    /\ UNCHANGED <<parseVars, powerVars, expr, merged, dfaVars, engineVars, calls, walkVars>>

\* let merged = merge_by_epsilon(&nfa, &mut alloc)
MergeByEpsilon ==
    /\ pc = "merge_by_epsilon"
    /\ merged' = merge_by_epsilon(nfa)
    /\ pc' = "build_dfa"
    /\ UNCHANGED <<parseVars, powerVars, buildVars, dfaVars, engineVars, calls, walkVars>>

\* build_dfa(&merged, &mut dfa_alloc) up to its loop (lines 472-486).
BuildDfaEnter ==
    /\ pc = "build_dfa"
    /\ all_nodes' = {e.from : e \in merged.edges} \cup {e.to : e \in merged.edges}
    /\ LET r == new_node(dfa_alloc, {merged.start})
       IN  /\ dfa_alloc' = r.alloc
           /\ queue' = {r.node}
           /\ dfa' = [start |-> r.node, edges |-> {}, acceptors |-> {}]
    /\ visited' = {}
    /\ loops' = 0
    /\ pc' = "dfa_loop"
    /\ UNCHANGED <<parseVars, powerVars, buildVars, merged, engineVars, calls, walkVars>>

\* One iteration of build_dfa's while loop (lines 488-503).  The successors
\* are those of the start DFANode's subset: the code reads
\* alloc.nodes[&start], not a node taken from the queue.
BuildDfaLoop ==
    /\ pc = "dfa_loop"
    /\ queue # {}
    /\ loops' = loops + 1
    /\ LET r == succeeding_subsets(dfa_alloc[dfa.start], merged.edges, all_nodes, dfa_alloc)
           successors == UNION {r.subsets[c] : c \in DOMAIN r.subsets}
       IN  IF r.unwrap_none
           THEN /\ pc' = "panic"
                /\ UNCHANGED <<dfa_alloc, dfa, visited, queue>>
           ELSE /\ dfa_alloc' = r.alloc
                /\ dfa' = [dfa EXCEPT !.edges = @ \cup successor_edges(dfa.start, r.subsets)]
                /\ visited' = visited \cup successors
                /\ queue' = new_queue(successors, visited)
                /\ pc' = "dfa_loop"
    /\ UNCHANGED <<parseVars, powerVars, buildVars, merged, all_nodes, engineVars, calls, walkVars>>

\* The loop's exit and build_dfa's return (lines 488, 505-507): no acceptor
\* is added to dfa.acceptors.
BuildDfaReturn ==
    /\ pc = "dfa_loop"
    /\ queue = {}
    /\ pc' = "engine_new"
    /\ UNCHANGED <<parseVars, powerVars, buildVars, merged, dfaVars, engineVars, calls, walkVars>>

\* Engine::new(dfa)
EngineNew ==
    /\ pc = "engine_new"
    /\ IF Engine_new_panics(dfa)
       THEN /\ pc' = "panic"
            /\ UNCHANGED engine
       ELSE /\ engine' = Engine_new(dfa)
            /\ pc' = "ready"
    /\ UNCHANGED <<parseVars, powerVars, buildVars, merged, dfaVars, s, iter, current, result, calls, walkVars>>

\* engine.match_string(str) up to its loop (lines 22-23).
MatchString(str) ==
    /\ pc = "ready"
    /\ s' = str
    /\ iter' = 0
    /\ current' = engine.start
    /\ pc' = "matching"
    /\ UNCHANGED <<parseVars, powerVars, buildVars, merged, dfaVars, engine, result, calls, walkVars>>

\* One iteration of match_string's loop (lines 24-39).  DFANode has no field
\* is_acceptor (automaton.rs, lines 127-130) and nothing computes one, so the
\* value returned at line 26 is left open.
MatchLoop ==
    /\ pc = "matching"
    /\ IF iter = Len(s)
       THEN /\ \E is_acceptor \in BOOLEAN : result' = is_acceptor
            /\ pc' = "returned"
            /\ UNCHANGED <<iter, current>>
       ELSE LET c == s[iter + 1]
            IN  /\ iter' = iter + 1
                /\ IF current \in DOMAIN engine.edges /\ c \in DOMAIN engine.edges[current]
                   THEN /\ current' = engine.edges[current][c]
                        /\ UNCHANGED <<pc, result>>
                   ELSE /\ result' = FALSE
                        /\ pc' = "returned"
                        /\ UNCHANGED current
    /\ UNCHANGED <<parseVars, powerVars, buildVars, merged, dfaVars, engine, s, calls, walkVars>>

Next ==
    \/ BuildNfa
    \/ MergeByEpsilon
    \/ BuildDfaEnter
    \/ BuildDfaLoop
    \/ BuildDfaReturn
    \/ EngineNew
    \/ \E str \in Strings : MatchString(str)
    \/ MatchLoop

Spec == Init /\ [][Next]_vars

(***************************************************************************)
(* SpecAlloc: any sequence of new_node calls on one DFAAllocator.          *)
(***************************************************************************)
InitAlloc ==
    /\ pc = "new_node"
    /\ expr = Sequence(<<>>)
    /\ alloc = NodeAllocator_new
    /\ nfa = NoGraph
    /\ merged = NoGraph
    /\ dfa_alloc = DFAAllocator_new
    /\ all_nodes = {}
    /\ visited = {}
    /\ queue = {}
    /\ dfa = NoDFA
    /\ engine = NoEngine
    /\ s = <<>>
    /\ iter = 0
    /\ current = 0
    /\ result = FALSE
    /\ calls = <<>>
    /\ loops = 0
    /\ WalkIdle
    /\ ParseIdle
    /\ PowerIdle

\* alloc.new_node(nodes)
NewNode(nodes) ==
    /\ pc = "new_node"
    /\ Len(calls) < MaxCalls
    /\ LET r == new_node(dfa_alloc, nodes)
       IN  /\ dfa_alloc' = r.alloc
           /\ calls' = Append(calls, [nodes |-> nodes, node |-> r.node])
    /\ UNCHANGED <<parseVars, powerVars, pc, buildVars, merged, all_nodes, visited, queue, dfa, loops, engineVars,
                   walkVars>>

NextAlloc == \E nodes \in SUBSET (0..MaxNodeId) : NewNode(nodes)

SpecAlloc == InitAlloc /\ [][NextAlloc]_vars

(***************************************************************************)
(* SpecMerge: merge_by_epsilon followed call by call, on small graphs of   *)
(* any shape and on the graphs build_nfa returns.                          *)
(***************************************************************************)
GraphNodes == 0..MaxGraphNode
CandidateEdges == {Edge(c, from, to) : c \in {None, "a"}, from \in GraphNodes, to \in GraphNodes}

RECURSIVE SetsUpTo(_, _)
\* The subsets of S with at most k members.
SetsUpTo(S, k) ==
    IF k = 0 THEN {{}}
    ELSE LET smaller == SetsUpTo(S, k - 1)
         IN  smaller \cup {T \cup {x} : T \in smaller, x \in S}

SmallGraphs ==
    {[start |-> start, edges |-> edges, acceptors |-> acceptors] :
        start \in GraphNodes, edges \in SetsUpTo(CandidateEdges, MaxEdges),
        acceptors \in SetsUpTo(GraphNodes, MaxAcceptors)}

BuiltGraphs ==
    {build_nfa(e, NodeAllocator_new).graph : e \in UNION {ExprsOfSize(n) : n \in 1..(MaxSize - 2)}}

NodesOf(graph) ==
    {graph.start} \cup graph.acceptors
        \cup {e.from : e \in graph.edges} \cup {e.to : e \in graph.edges}

InitMerge ==
    /\ pc = "merge_enter"
    /\ nfa \in SmallGraphs \cup BuiltGraphs
    /\ expr = Sequence(<<>>)
    /\ alloc = NodeAllocator_new
    /\ merged = NoGraph
    /\ dfa_alloc = DFAAllocator_new
    /\ all_nodes = {}
    /\ visited = {}
    /\ queue = {}
    /\ dfa = NoDFA
    /\ engine = NoEngine
    /\ s = <<>>
    /\ iter = 0
    /\ current = 0
    /\ result = FALSE
    /\ calls = <<>>
    /\ loops = 0
    /\ WalkIdle
    /\ ParseIdle
    /\ PowerIdle

idleVars == <<buildVars, dfaVars, engineVars, calls, parseVars, powerVars>>

Push(stack, frame) == Append(stack, frame)
Pop(stack) == SubSeq(stack, 1, Len(stack) - 1)
Top(stack) == stack[Len(stack)]

\* merge_by_epsilon up to its call of traverse_node on graph.start
\* (lines 404-425, 453-454).
MergeEnter ==
    /\ pc = "merge_enter"
    /\ merged' = [Graph_new(nfa.start) EXCEPT !.edges = copied_edges(nfa)]
    /\ t_stack' = <<>>
    /\ t_visited' = {}
    /\ t_arg' = nfa.start
    /\ t_calls' = [n \in NodesOf(nfa) |-> 0]
    /\ r_calls' = [n \in NodesOf(nfa) |-> 0]
    /\ steps' = 1
    /\ pc' = "traverse_node"
    /\ UNCHANGED <<idleVars, r_stack, r_visited, r_arg, r_ret>>

\* traverse_node(t_arg) up to its call of f (lines 229-235); f starts with
\* reachable_through_epsilon on the node and a fresh visited set
\* (lines 426-429).
TraverseNode ==
    /\ pc = "traverse_node"
    /\ steps' = steps + 1
    /\ IF traverse_seen(t_visited, t_arg)
       THEN /\ pc' = "traverse_loop"
            /\ UNCHANGED <<t_visited, t_calls, r_stack, r_visited, r_arg, r_calls>>
       ELSE /\ t_visited' = t_visited \cup {t_arg}
            /\ t_calls' = [t_calls EXCEPT ![t_arg] = @ + 1]
            /\ r_stack' = <<>>
            /\ r_visited' = {}
            /\ r_arg' = t_arg
            /\ r_calls' = [n \in DOMAIN r_calls |-> 0]
            /\ pc' = "reachable"
    /\ UNCHANGED <<idleVars, merged, t_stack, t_arg, r_ret>>

\* reachable_through_epsilon(r_arg) up to its loop (lines 384-391, 398-400).
Reachable ==
    /\ pc = "reachable"
    /\ steps' = steps + 1
    /\ IF reachable_seen(r_visited, r_arg)
       THEN /\ r_ret' = {}
            /\ pc' = "reachable_return"
            /\ UNCHANGED <<r_visited, r_calls, r_stack>>
       ELSE /\ r_visited' = r_visited \cup {r_arg}
            /\ r_calls' = [r_calls EXCEPT ![r_arg] = @ + 1]
            /\ LET through_epsilon == successors_through_epsilon(nfa)
               IN  IF r_arg \in DOMAIN through_epsilon
                   THEN /\ r_stack' = Push(r_stack, [current |-> r_arg,
                                                     todo |-> through_epsilon[r_arg],
                                                     accumulator |-> through_epsilon[r_arg]])
                        /\ pc' = "reachable_loop"
                        /\ UNCHANGED r_ret
                   ELSE /\ r_ret' = {}
                        /\ pc' = "reachable_return"
                        /\ UNCHANGED r_stack
    /\ UNCHANGED <<idleVars, merged, t_stack, t_visited, t_arg, t_calls, r_arg>>

\* The loop of lines 392-395 takes the next node of the HashSet, in whatever
\* order the HashSet gives them, and calls reachable_through_epsilon on it;
\* when none is left the call returns accumulator (line 397).
ReachableLoop ==
    /\ pc = "reachable_loop"
    /\ steps' = steps + 1
    /\ \/ \E to \in Top(r_stack).todo :
            /\ r_stack' = [r_stack EXCEPT ![Len(r_stack)].todo = @ \ {to}]
            /\ r_arg' = to
            /\ pc' = "reachable"
            /\ UNCHANGED r_ret
       \/ /\ Top(r_stack).todo = {}
          /\ r_ret' = Top(r_stack).accumulator
          /\ r_stack' = Pop(r_stack)
          /\ pc' = "reachable_return"
          /\ UNCHANGED r_arg
    /\ UNCHANGED <<idleVars, merged, t_stack, t_visited, t_arg, t_calls, r_visited, r_calls>>

\* A reachable_through_epsilon call has returned r_ret: to the loop of the
\* call above it, which extends its accumulator (line 394), or to f, which
\* goes on with it as through_epsilon (lines 430-451), after which
\* traverse_node enters its loop over the edges leaving the node (line 237).
ReachableReturn ==
    /\ pc = "reachable_return"
    /\ steps' = steps + 1
    /\ IF r_stack # <<>>
       THEN /\ r_stack' = [r_stack EXCEPT ![Len(r_stack)].accumulator = @ \cup r_ret]
            /\ pc' = "reachable_loop"
            /\ UNCHANGED <<merged, t_stack>>
       ELSE /\ merged' = merge_found(nfa, successors_through_non_epsilon(nfa), merged,
                                     t_arg, r_ret)
            /\ t_stack' = Push(t_stack,
                               [current |-> t_arg,
                                todo |-> SortedEdges({e \in nfa.edges : e.from = t_arg})])
            /\ pc' = "traverse_loop"
            /\ UNCHANGED r_stack
    /\ UNCHANGED <<idleVars, t_visited, t_arg, t_calls, r_visited, r_arg, r_ret, r_calls>>

\* The loop of lines 237-239 calls traverse_node on the target of the next
\* edge; when none is left the call returns, and when it was the call on
\* graph.start merge_by_epsilon returns ret (line 455).
TraverseLoop ==
    /\ pc = "traverse_loop"
    /\ steps' = steps + 1
    /\ IF t_stack = <<>>
       THEN /\ pc' = "merge_done"
            /\ UNCHANGED <<t_stack, t_arg>>
       ELSE IF Top(t_stack).todo # <<>>
       THEN /\ t_arg' = Head(Top(t_stack).todo).to
            /\ t_stack' = [t_stack EXCEPT ![Len(t_stack)].todo = Tail(@)]
            /\ pc' = "traverse_node"
       ELSE /\ t_stack' = Pop(t_stack)
            /\ pc' = "traverse_loop"
            /\ UNCHANGED t_arg
    /\ UNCHANGED <<idleVars, merged, t_visited, t_calls, r_stack, r_visited, r_arg, r_ret,
                   r_calls>>

NextMerge ==
    \/ MergeEnter
    \/ TraverseNode
    \/ TraverseLoop
    \/ Reachable
    \/ ReachableLoop
    \/ ReachableReturn

SpecMerge == InitMerge /\ [][NextMerge]_vars

\* Followed call by call, merge_by_epsilon returns what the operator
\* merge_by_epsilon gives, whatever the order the HashSets are walked in.
MergeWalkAgrees == pc = "merge_done" => merged = merge_by_epsilon(nfa)

(***************************************************************************)
(* SpecEngine: Engine::new and match_string on small DFAs of any shape.    *)
(***************************************************************************)
DfaNodes == 0..MaxDfaNode
CandidateDfaEdges ==
    {DFAEdge(c, from, to) : c \in Chars, from \in DfaNodes, to \in DfaNodes}

SmallDFAs ==
    {[start |-> start, edges |-> edges, acceptors |-> acceptors] :
        start \in DfaNodes, edges \in SetsUpTo(CandidateDfaEdges, MaxDfaEdges),
        acceptors \in SUBSET DfaNodes}

InitEngine ==
    /\ pc = "engine_new"
    /\ dfa \in SmallDFAs
    /\ expr = Sequence(<<>>)
    /\ alloc = NodeAllocator_new
    /\ nfa = NoGraph
    /\ merged = NoGraph
    /\ dfa_alloc = DFAAllocator_new
    /\ all_nodes = {}
    /\ visited = {}
    /\ queue = {}
    /\ engine = NoEngine
    /\ s = <<>>
    /\ iter = 0
    /\ current = 0
    /\ result = FALSE
    /\ calls = <<>>
    /\ loops = 0
    /\ WalkIdle
    /\ ParseIdle
    /\ PowerIdle

NextEngine ==
    \/ EngineNew
    \/ \E str \in Strings : MatchString(str)
    \/ MatchLoop

SpecEngine == InitEngine /\ [][NextEngine]_vars

(***************************************************************************)
(* SpecBuild: any sequence of build_nfa calls on one NodeAllocator.        *)
(***************************************************************************)
BuildExprs == UNION {ExprsOfSize(n) : n \in 1..(MaxSize - 2)}

InitBuild ==
    /\ pc = "build_calls"
    /\ expr = Sequence(<<>>)
    /\ alloc = NodeAllocator_new
    /\ nfa = NoGraph
    /\ merged = NoGraph
    /\ dfa_alloc = DFAAllocator_new
    /\ all_nodes = {}
    /\ visited = {}
    /\ queue = {}
    /\ dfa = NoDFA
    /\ engine = NoEngine
    /\ s = <<>>
    /\ iter = 0
    /\ current = 0
    /\ result = FALSE
    /\ calls = <<>>
    /\ loops = 0
    /\ WalkIdle
    /\ ParseIdle
    /\ PowerIdle

\* build_nfa(&e, &mut alloc)
BuildCall(e) ==
    /\ pc = "build_calls"
    /\ Len(calls) < MaxBuildCalls
    /\ LET r == build_nfa(e, alloc)
       IN  /\ expr' = e
           /\ nfa' = r.graph
           /\ alloc' = r.alloc
           /\ calls' = Append(calls, [expr |-> e, before |-> alloc, graph |-> r.graph])
    /\ UNCHANGED <<parseVars, powerVars, pc, merged, dfaVars, engineVars, walkVars>>

NextBuild == \E e \in BuildExprs : BuildCall(e)

SpecBuild == InitBuild /\ [][NextBuild]_vars

(***************************************************************************)
(* SpecParse: parse on every input up to a length.                         *)
(***************************************************************************)
RECURSIVE InputsOfLen(_)
InputsOfLen(n) ==
    IF n = 0 THEN {<<>>}
    ELSE {Append(v, c) : v \in InputsOfLen(n - 1), c \in ParserChars}

Inputs == UNION {InputsOfLen(n) : n \in 0..MaxInputLen}

InitParse ==
    /\ pc = "parse"
    /\ input \in Inputs
    /\ parsed = NoParse
    /\ PowerIdle
    /\ expr = Sequence(<<>>)
    /\ alloc = NodeAllocator_new
    /\ nfa = NoGraph
    /\ merged = NoGraph
    /\ dfa_alloc = DFAAllocator_new
    /\ all_nodes = {}
    /\ visited = {}
    /\ queue = {}
    /\ dfa = NoDFA
    /\ engine = NoEngine
    /\ s = <<>>
    /\ iter = 0
    /\ current = 0
    /\ result = FALSE
    /\ calls = <<>>
    /\ loops = 0
    /\ WalkIdle

\* parse(&mut input.chars())
Parse ==
    /\ pc = "parse"
    /\ parsed' = parse(input)
    /\ pc' = "parsed"
    /\ UNCHANGED <<input, powerVars, buildVars, merged, dfaVars, engineVars, calls, walkVars>>

NextParse == Parse

SpecParse == InitParse /\ [][NextParse]_vars

(***************************************************************************)
(* SpecPower: the iterator power_set returns, called until it returns      *)
(* None, on every non-empty set of nodes up to a size.                     *)
(***************************************************************************)
InitPower ==
    /\ pc = "power_set"
    /\ \E nodes \in (SUBSET (0..MaxPowerNode)) \ {{}} : power = power_set(nodes)
    /\ yielded = <<>>
    /\ ParseIdle
    /\ expr = Sequence(<<>>)
    /\ alloc = NodeAllocator_new
    /\ nfa = NoGraph
    /\ merged = NoGraph
    /\ dfa_alloc = DFAAllocator_new
    /\ all_nodes = {}
    /\ visited = {}
    /\ queue = {}
    /\ dfa = NoDFA
    /\ engine = NoEngine
    /\ s = <<>>
    /\ iter = 0
    /\ current = 0
    /\ result = FALSE
    /\ calls = <<>>
    /\ loops = 0
    /\ WalkIdle

\* One call of PowerSet::next.
PowerNext ==
    /\ pc = "power_set"
    /\ LET r == PowerSet_next(power)
       IN  IF r.some
           THEN /\ yielded' = Append(yielded, r.item)
                /\ power' = r.ps
                /\ UNCHANGED pc
           ELSE /\ pc' = "power_done"
                /\ UNCHANGED <<power, yielded>>
    /\ UNCHANGED <<parseVars, buildVars, merged, dfaVars, engineVars, calls, walkVars>>

NextPower == PowerNext

SpecPower == InitPower /\ [][NextPower]_vars

(***************************************************************************)
(* Reference semantics the properties are stated against.                  *)
(***************************************************************************)
RECURSIVE InLanguage(_, _)
\* Whether str belongs to the language of the expression e.
InLanguage(e, str) ==
    CASE e.tag = "Character" -> str = e.chars
      [] e.tag = "Range" -> Len(str) = 1 /\ str[1] \in SetOfSeq(e.chars)
      [] e.tag = "Branch" -> InLanguage(e.kids[1], str) \/ InLanguage(e.kids[2], str)
      [] e.tag = "Sequence" ->
            IF e.kids = <<>> THEN str = <<>>
            ELSE \E i \in 0..Len(str) :
                    /\ InLanguage(Head(e.kids), SubSeq(str, 1, i))
                    /\ InLanguage(Sequence(Tail(e.kids)), SubSeq(str, i + 1, Len(str)))
      [] e.tag = "Repeation" ->
            \/ str = <<>>
            \/ \E i \in 1..Len(str) :
                    /\ InLanguage(e.kids[1], SubSeq(str, 1, i))
                    /\ InLanguage(e, SubSeq(str, i + 1, Len(str)))

RECURSIVE EpsilonClosure(_, _)
\* The nodes reachable from the set S by zero or more epsilon edges of g.
EpsilonClosure(g, S) ==
    LET more == S \cup {e.to : e \in {f \in g.edges : f.condition = None /\ f.from \in S}}
    IN  IF more = S THEN S ELSE EpsilonClosure(g, more)

\* The targets of the c-labelled edges of g leaving the set S.
Targets(g, S, c) == {e.to : e \in {f \in g.edges : f.condition = c /\ f.from \in S}}

RECURSIVE EpsilonRun(_, _, _), PlainRun(_, _, _)
\* The nodes g can be in after reading str from the set S, epsilon moves allowed.
EpsilonRun(g, S, str) ==
    IF str = <<>> THEN EpsilonClosure(g, S)
    ELSE EpsilonRun(g, Targets(g, EpsilonClosure(g, S), Head(str)), Tail(str))
\* The same without epsilon moves.
PlainRun(g, S, str) ==
    IF str = <<>> THEN S ELSE PlainRun(g, Targets(g, S, Head(str)), Tail(str))

\* g read as an NFA with epsilon moves accepts str.
AcceptsWithEpsilon(g, str) == EpsilonRun(g, {g.start}, str) \cap g.acceptors # {}
\* g read as an NFA without epsilon moves accepts str.
AcceptsPlain(g, str) == PlainRun(g, {g.start}, str) \cap g.acceptors # {}

Merged == pc \notin {"build_nfa", "merge_by_epsilon"}
DfaBuilt == pc \in {"engine_new", "ready", "matching", "returned"}
    \/ (pc = "panic" /\ queue = {})

(***************************************************************************)
(* Properties.                                                             *)
(***************************************************************************)
\* C1: for every expression tree and every string s, the pipeline build_nfa,
\* merge_by_epsilon, build_dfa, Engine::new, match_string(s) runs through and
\* returns true exactly when s belongs to the language of the expression.
C1_MatchEqualsLanguage ==
    /\ pc # "panic"
    /\ pc = "returned" => (result <=> InLanguage(expr, s))

\* C2: in the DFA build_dfa returns, a DFANode has at most one edge for a
\* character.
C2_Deterministic ==
    DfaBuilt =>
        \A e, f \in dfa.edges :
            (e.from = f.from /\ e.condition = f.condition) => e = f

\* C4: the graph merge_by_epsilon returns, read without epsilon moves,
\* accepts exactly the strings the graph of build_nfa accepts with epsilon
\* moves.
C4_MergePreservesLanguage ==
    Merged => \A str \in Strings : AcceptsPlain(merged, str) <=> AcceptsWithEpsilon(nfa, str)

\* C5: a DFANode of the DFA build_dfa returns is accepting exactly when its
\* subset holds an acceptor of the input graph, and match_string returns
\* that value when the input ends in that state.
C5_AcceptingIffSubsetAccepts ==
    /\ DfaBuilt =>
          \A d \in DOMAIN dfa_alloc :
              d \in dfa.acceptors <=> dfa_alloc[d] \cap merged.acceptors # {}
    /\ (pc = "returned" /\ iter = Len(s) /\ s = <<>>) =>
          (result <=> dfa_alloc[current] \cap merged.acceptors # {})

\* C6: every DFAEdge (c, S, D) build_dfa records has as D the DFANode
\* registered for the union of the targets of the c-labelled edges leaving
\* the members of S.
C6_EdgeLeadsToUnion ==
    (pc = "dfa_loop" \/ DfaBuilt) =>
        \A e \in dfa.edges :
            dfa_alloc[e.to] = Targets(merged, dfa_alloc[e.from], e.condition)

\* C7: when build_dfa returns, every DFANode that was on its frontier has an
\* edge for every character labelling an edge from a member of its subset.
C7_FrontierExpanded ==
    DfaBuilt =>
        \A d \in visited \cup {dfa.start} :
            \A c \in Chars :
                Targets(merged, dfa_alloc[d], c) # {} =>
                    \E e \in dfa.edges : e.from = d /\ e.condition = c

\* C10: a node is an acceptor of the graph merge_by_epsilon returns if and
\* only if it or a node reachable from it by epsilon edges of the input alone
\* is an acceptor of the input.
C10_AcceptorIffClosureAccepts ==
    Merged =>
        \A n \in SetOfSeq(alloc) :
            n \in merged.acceptors <=> EpsilonClosure(nfa, {n}) \cap nfa.acceptors # {}

\* C3: after any sequence of new_node calls on one allocator, calls given
\* equal subsets returned the same DFANode, and no two DFANodes are
\* registered with equal subsets.
C3_Canonical ==
    /\ \A i, j \in 1..Len(calls) :
          calls[i].nodes = calls[j].nodes => calls[i].node = calls[j].node
    /\ \A d, e \in DOMAIN dfa_alloc : dfa_alloc[d] = dfa_alloc[e] => d = e

\* A subset is handed to new_node again after another one was registered,
\* and the first DFANode comes back.
C3_Witness ==
    /\ Len(calls) = 3
    /\ calls[1].nodes = calls[3].nodes
    /\ calls[2].nodes # calls[1].nodes
    /\ calls[3].node = calls[1].node
    /\ Cardinality(DOMAIN dfa_alloc) = 2

\* C8: build_dfa terminates: its loop makes at most one iteration more than
\* there are DFANodes in visited, because a DFANode goes on the queue only
\* when it is not yet in visited, and the DFANodes are the registered ones,
\* one for a subset of the graph's finitely many nodes.
C8_BuildDfaTerminates ==
    (pc = "dfa_loop" \/ DfaBuilt) =>
        /\ loops <= Cardinality(visited) + 1
        /\ queue \subseteq visited \cup {dfa.start}
        /\ visited \subseteq DOMAIN dfa_alloc
        /\ Cardinality(DOMAIN dfa_alloc) <= 2 ^ Cardinality(all_nodes \cup {merged.start})

\* build_dfa has returned for an expression with a Repeation after its loop
\* ran with a non-empty new queue.
C8_Witness ==
    /\ pc = "engine_new"
    /\ expr.tag = "Repeation"
    /\ visited # {}
    /\ queue = {}
    /\ loops = 2

\* The steps merge_by_epsilon can make on a graph with n nodes and e edges:
\* at most 1 + e calls of traverse_node, n of them getting past the visited
\* test, each with at most 1 + e calls of reachable_through_epsilon.
StepBound(graph) ==
    LET n == Cardinality(NodesOf(graph))
        e == Cardinality(graph.edges)
    IN  3 + 2 * e + n + n * (2 + 3 * e + n)

\* C9: merge_by_epsilon terminates on every graph, epsilon cycles included:
\* traverse_node calls f on a node at most once, a closure computation gets
\* past the visited test of reachable_through_epsilon at most once per node,
\* the calls in progress never outnumber the nodes, and the steps made stay
\* within a bound the graph's size gives.
C9_MergeTerminates ==
    pc \notin {"merge_enter"} =>
        /\ \A n \in DOMAIN t_calls : t_calls[n] <= 1
        /\ \A n \in DOMAIN r_calls : r_calls[n] <= 1
        /\ Len(t_stack) <= Cardinality(NodesOf(nfa))
        /\ Len(r_stack) <= Cardinality(NodesOf(nfa))
        /\ steps <= StepBound(nfa)

\* merge_by_epsilon has returned for a graph with an epsilon self-loop and a
\* two-node epsilon cycle.
C9_Witness ==
    /\ pc = "merge_done"
    /\ nfa.start = 0
    /\ {Edge(None, 0, 0), Edge(None, 0, 1), Edge(None, 1, 0)} \subseteq nfa.edges
    /\ t_calls[0] = 1
    /\ t_calls[1] = 1

EpsilonFree(graph) == \A e \in graph.edges : e.condition # None

\* C11: merge_by_epsilon applied to a graph without epsilon edges returns a
\* graph with the edge set of the input, no edge added and none removed,
\* that accepts the same strings.
C11_EpsilonFreeUnchanged ==
    (pc = "merge_done" /\ EpsilonFree(nfa)) =>
        /\ merged.edges = nfa.edges
        /\ \A str \in Strings : AcceptsPlain(merged, str) <=> AcceptsPlain(nfa, str)

\* merge_by_epsilon has returned for a graph without epsilon edges that has
\* two edges in a row and accepts "aa".
C11_Witness ==
    /\ pc = "merge_done"
    /\ EpsilonFree(nfa)
    /\ Cardinality(nfa.edges) >= 2
    /\ AcceptsPlain(nfa, <<"a", "a">>)
    /\ AcceptsPlain(merged, <<"a", "a">>)

\* C12: every edge of the graph merge_by_epsilon builds and returns carries
\* a character: no epsilon edge is in the output, whatever the input graph.
C12_NoEpsilonEdge ==
    pc \in {"traverse_node", "traverse_loop", "reachable", "reachable_loop",
            "reachable_return", "merge_done"} =>
        \A e \in merged.edges : e.condition \in Chars

\* merge_by_epsilon has returned for a graph with an epsilon edge, and the
\* output has an edge the input has not.
C12_Witness ==
    /\ pc = "merge_done"
    /\ ~EpsilonFree(nfa)
    /\ merged.edges \ nfa.edges # {}

\* C13: merge_by_epsilon leaves the input graph and the NodeAllocator as
\* they are, returns a graph with the start of the input, and every node of
\* an edge or of the acceptors of the output is a node of the input.
C13_Frame ==
    /\ [](pc \in {"traverse_node", "traverse_loop", "reachable", "reachable_loop",
                  "reachable_return", "merge_done"} =>
              /\ merged.start = nfa.start
              /\ NodesOf(merged) \subseteq NodesOf(nfa))
    /\ [][nfa' = nfa /\ alloc' = alloc]_vars

\* merge_by_epsilon has returned a graph with edges and acceptors for an
\* input with epsilon edges.
C13_Witness ==
    /\ pc = "merge_done"
    /\ ~EpsilonFree(nfa)
    /\ merged.edges # {}
    /\ merged.acceptors # {}
    /\ Cardinality(NodesOf(nfa)) >= 3

RECURSIVE TableRun(_, _, _, _)
\* Reading str from state in a table, left to right, up to the first char
\* the state has no entry for: the state reached, the chars taken from the
\* input, and whether an entry was missing.
TableRun(table, state, str, read) ==
    IF str = <<>> THEN [state |-> state, read |-> read, stuck |-> FALSE]
    ELSE IF state \in DOMAIN table /\ Head(str) \in DOMAIN table[state]
    THEN TableRun(table, table[state][Head(str)], Tail(str), read + 1)
    ELSE [state |-> state, read |-> read + 1, stuck |-> TRUE]

\* match_string walks the table from the start state, left to right, and
\* stops with false at the first char without an entry.
MatchStringWalks ==
    /\ pc = "matching" =>
          LET r == TableRun(engine.edges, engine.start, SubSeq(s, 1, iter), 0)
          IN  ~r.stuck /\ current = r.state
    /\ pc = "returned" =>
          LET r == TableRun(engine.edges, engine.start, s, 0)
          IN  /\ iter = r.read
              /\ current = r.state
              /\ r.stuck => ~result

\* C14: match_string starts in the start state and takes the chars of s
\* left to right; at the first char the current state has no entry for it
\* returns false without reading further, otherwise it moves to the state
\* looked up, and after the last char it returns whether the current state
\* is accepting.
C14_MatchStringSemantics ==
    /\ MatchStringWalks
    /\ pc = "returned" =>
          LET r == TableRun(engine.edges, engine.start, s, 0)
          IN  ~r.stuck => (result <=> r.state \in dfa.acceptors)

\* C15: Engine::new panics when two edges of the DFA share from and
\* condition; otherwise its table maps the (from, condition) of every edge
\* to the edge's target and has no other entry.
C15_EngineNewAsserts ==
    LET clash == \E e, f \in dfa.edges :
                    e # f /\ e.from = f.from /\ e.condition = f.condition
    IN  /\ pc = "panic" => clash
        /\ pc \in {"ready", "matching", "returned"} =>
              /\ ~clash
              /\ engine.start = dfa.start
              /\ \A e \in dfa.edges :
                    /\ e.from \in DOMAIN engine.edges
                    /\ e.condition \in DOMAIN engine.edges[e.from]
                    /\ engine.edges[e.from][e.condition] = e.to
              /\ \A d \in DOMAIN engine.edges : \A c \in DOMAIN engine.edges[d] :
                    \E e \in dfa.edges : e.from = d /\ e.condition = c

\* Engine::new has panicked on a DFA with two edges for one state and char
\* and a third edge that clashes with neither.
C15_Witness ==
    /\ pc = "panic"
    /\ Cardinality(dfa.edges) = 3
    /\ \E e \in dfa.edges : \A f \in dfa.edges :
          (e.from = f.from /\ e.condition = f.condition) => e = f

RECURSIVE ContainsEmptyRange(_)
\* The tree has a Range with no char in it.
ContainsEmptyRange(e) ==
    \/ e.tag = "Range" /\ e.chars = <<>>
    \/ \E i \in 1..Len(e.kids) : ContainsEmptyRange(e.kids[i])

\* C16: build_nfa, given a tree with a Range without chars, panics and
\* returns no graph.
C16_EmptyRangePanics ==
    ContainsEmptyRange(expr) => pc \in {"build_nfa", "panic"}

\* The sub-results of a Sequence: what build_nfa returned for the members of
\* its list, the start node of the Sequence allocated before them.
SubResults(e) == build_nfas(e.kids, Node_new(NodeAllocator_new).alloc).nfas

\* C17 as stated: the graph of a non-empty Sequence has the start of the
\* first sub-result as start and the acceptors of the last sub-result as
\* acceptors; the start of the graph of an empty Sequence is an acceptor.
C17_SequenceSharesEnds ==
    (pc # "build_nfa" /\ expr.tag = "Sequence") =>
        LET subs == SubResults(expr)
        IN  IF subs # <<>>
            THEN /\ nfa.start = subs[1].start
                 /\ nfa.acceptors = subs[Len(subs)].acceptors
            ELSE nfa.start \in nfa.acceptors

\* C17: the graph build_nfa returns for a Sequence has a start node of its
\* own, allocated before the sub-results, and as only acceptor an end node
\* of its own, allocated after them; the start is no acceptor; an epsilon
\* edge leads from the start to the start of the first sub-result, from
\* every acceptor of a sub-result to the start of the next, and from every
\* acceptor of the last sub-result to the end; for an empty Sequence the one
\* edge is an epsilon edge from the start to the end.
C17_SequenceFreshEnds ==
    (pc # "build_nfa" /\ expr.tag = "Sequence") =>
        LET subs == SubResults(expr)
            end == Len(alloc) - 1
            sub_nodes == UNION {NodesOf(subs[i]) : i \in 1..Len(subs)}
        IN  /\ nfa.start = 0
            /\ nfa.acceptors = {end}
            /\ nfa.start # end
            /\ {nfa.start, end} \cap sub_nodes = {}
            /\ nfa.edges =
                  UNION {subs[i].edges : i \in 1..Len(subs)}
                    \cup (IF subs = <<>> THEN {Edge(None, nfa.start, end)}
                          ELSE {Edge(None, nfa.start, subs[1].start)}
                                 \cup {Edge(None, a, end) : a \in subs[Len(subs)].acceptors})
                    \cup UNION {{Edge(None, a, subs[i + 1].start) : a \in subs[i].acceptors}
                                  : i \in 1..(Len(subs) - 1)}

\* build_nfa has returned for a Sequence of two members.
C17_Witness ==
    /\ pc = "merge_by_epsilon"
    /\ expr.tag = "Sequence"
    /\ Len(expr.kids) = 2
    /\ Cardinality(nfa.edges) >= 5

RECURSIVE ReachFrom(_, _)
\* The nodes reachable from the set S by edges of g of any kind.
ReachFrom(g, S) ==
    LET more == S \cup {e.to : e \in {f \in g.edges : f.from \in S}}
    IN  IF more = S THEN S ELSE ReachFrom(g, more)

\* The edges n --c--> t for n in the set from, m reachable from n by epsilon
\* edges (n included) and m --c--> t a character edge of g.
CarriedEdges(g, from) ==
    UNION {{Edge(e.condition, n, e.to) :
                e \in {f \in g.edges : f.condition # None
                                          /\ f.from \in EpsilonClosure(g, {n})}}
             : n \in from}

\* C18 as stated: for every node n of the input, reachable from the start
\* or not, the output has n --c--> t for every character edge m --c--> t of
\* a node m reachable from n by epsilon edges.
C18_EdgesCarriedForAllNodes ==
    pc = "merge_done" => CarriedEdges(nfa, NodesOf(nfa)) \subseteq merged.edges

\* C18: the edges of the graph merge_by_epsilon returns are the character
\* edges of the input and, for every node n reachable from the start by
\* edges of any kind, n --c--> t for every character edge m --c--> t of a
\* node m reachable from n by epsilon edges; a node not reachable from the
\* start gets no edge but its own.
C18_EdgesCarriedForReachable ==
    pc = "merge_done" =>
        merged.edges = copied_edges(nfa) \cup CarriedEdges(nfa, ReachFrom(nfa, {nfa.start}))

\* merge_by_epsilon has returned for a graph where a node not reachable
\* from the start has an epsilon edge to a node with a character edge, and a
\* node reachable from the start has one too.
C18_Witness ==
    /\ pc = "merge_done"
    /\ CarriedEdges(nfa, NodesOf(nfa)) \ merged.edges # {}
    /\ merged.edges \ nfa.edges # {}

RECURSIVE SubsetsFrom(_, _)
\* The subsets a set of subsets leads to by reading chars in g.
SubsetsFrom(g, found) ==
    LET more == found \cup {Targets(g, S, c) : S \in found, c \in Chars}
    IN  IF more = found THEN found ELSE SubsetsFrom(g, more)

\* The sets of nodes g, read without epsilon moves, can be in after reading
\* some string from its start.
ReachableSubsets(g) == SubsetsFrom(g, {{g.start}})

\* C19: every DFANode build_dfa registers stands for the set of nodes
\* reachable from graph.start by reading some string.
C19_RegisteredSubsetsReachable ==
    (pc = "dfa_loop" \/ DfaBuilt) =>
        \A d \in DOMAIN dfa_alloc : dfa_alloc[d] \in ReachableSubsets(merged)

\* C20: reachable_through_epsilon, called on a node with an empty visited
\* set, returns a set that with the node makes the set of the nodes
\* reachable from it by zero or more epsilon edges, in whatever order the
\* HashSets are walked.
C20_ReachableIsClosure ==
    (pc = "reachable_return" /\ r_stack = <<>>) =>
        r_ret \cup {t_arg} = EpsilonClosure(nfa, {t_arg})

\* The call has returned for a node with two epsilon paths to one node.
C20_Witness ==
    /\ pc = "reachable_return"
    /\ r_stack = <<>>
    /\ t_arg = 0
    /\ {Edge(None, 0, 1), Edge(None, 0, 2), Edge(None, 1, 2)} \subseteq nfa.edges
    /\ r_ret = {1, 2}

\* The graphs build_nfa returned for the members of a Branch or Sequence
\* built on the allocator before, in the order they were built: a Sequence
\* allocates its start before them.
SiblingResults(e, before) ==
    IF e.tag = "Sequence" THEN build_nfas(e.kids, Node_new(before).alloc).nfas
    ELSE IF e.tag = "Branch" THEN build_nfas(e.kids, before).nfas
    ELSE <<>>

\* C21: over any sequence of build_nfa calls on one NodeAllocator, every
\* node allocated has an id greater than all ids issued before it, every
\* node of a graph returned was allocated by the allocator, during the
\* call that returned it, and the graphs built for two members of one
\* Branch or Sequence share no node.
C21_AllocatorMonotone ==
    /\ \A i, j \in 1..Len(alloc) : i < j => alloc[i] < alloc[j]
    /\ \A k \in 1..Len(calls) :
          LET after == IF k < Len(calls) THEN calls[k + 1].before ELSE alloc
              subs == SiblingResults(calls[k].expr, calls[k].before)
          IN  /\ NodesOf(calls[k].graph) \subseteq SetOfSeq(after) \ SetOfSeq(calls[k].before)
              /\ SubSeq(after, 1, Len(calls[k].before)) = calls[k].before
              /\ \A i \in 1..Len(subs) :
                    /\ subs[i].edges \subseteq calls[k].graph.edges
                    /\ \A j \in 1..Len(subs) :
                          i # j => NodesOf(subs[i]) \cap NodesOf(subs[j]) = {}

\* A Branch and then a Sequence of two members were built on one allocator.
C21_Witness ==
    /\ Len(calls) = 2
    /\ calls[1].expr.tag = "Branch"
    /\ calls[2].expr.tag = "Sequence"
    /\ Len(calls[2].expr.kids) = 2
    /\ Len(alloc) >= 12

\* The input is a bracketed literal set: [, chars of the alphabet, ].
BracketedSet(in) ==
    /\ Len(in) >= 3
    /\ in[1] = "["
    /\ in[Len(in)] = "]"
    /\ \A i \in 2..(Len(in) - 1) : in[i] \in Chars

\* C22: parse applied to a bracketed literal set succeeds and returns a
\* Range of exactly the chars listed between the brackets, whose language
\* is the strings of one listed char.
C22_BracketedSetParses ==
    (pc = "parsed" /\ BracketedSet(input)) =>
        LET listed == {input[i] : i \in 2..(Len(input) - 1)}
        IN  /\ parsed.ok
            /\ parsed.expr.tag = "Range"
            /\ SetOfSeq(parsed.expr.chars) = listed
            /\ \A str \in Strings :
                  InLanguage(parsed.expr, str) <=> (Len(str) = 1 /\ str[1] \in listed)

\* C23: in parse the postfix star repeats the one item before it and
\* juxtaposition makes a sequence: a char, a char and a star parse to the
\* sequence of the first char and the Repeation of the second.
C23_StarBindsOneItem ==
    (pc = "parsed" /\ Len(input) = 3 /\ input[1] \in Chars /\ input[2] \in Chars
        /\ input[3] = "*") =>
        /\ parsed.ok
        /\ parsed.expr = Sequence(<<Character(input[1]), Repeation(Character(input[2]))>>)

\* C24: the graph build_nfa returns for an expression, read as an NFA with
\* epsilon moves from its start to its acceptors, accepts exactly the
\* strings of the language of the expression.
C24_BuildNfaLanguage ==
    pc \in {"merge_by_epsilon", "build_dfa", "dfa_loop", "engine_new", "ready", "matching",
            "returned", "panic"} =>
        \A str \in Strings : AcceptsWithEpsilon(nfa, str) <=> InLanguage(expr, str)

\* build_nfa has returned for the Repeation of a Sequence of two members,
\* and the graph accepts the empty string and "ab" and rejects "a".
C24_Witness ==
    /\ pc = "merge_by_epsilon"
    /\ expr.tag = "Repeation"
    /\ expr.kids[1].tag = "Sequence"
    /\ Len(expr.kids[1].kids) = 2
    /\ AcceptsWithEpsilon(nfa, <<>>)
    /\ AcceptsWithEpsilon(nfa, <<"a", "b">>)
    /\ ~AcceptsWithEpsilon(nfa, <<"a">>)

\* C25: every edge of the DFA build_dfa builds and returns leaves
\* dfa.start: whatever is on the frontier, no other DFANode gets an
\* outgoing edge.
C25_EdgesLeaveStart ==
    (pc = "dfa_loop" \/ DfaBuilt) => \A e \in dfa.edges : e.from = dfa.start

\* build_dfa has returned a DFA with edges, and a DFANode other than the
\* start was on the frontier whose subset has a node with a character edge.
C25_Witness ==
    /\ pc = "engine_new"
    /\ dfa.edges # {}
    /\ \E d \in visited \ {dfa.start} : \E c \in Chars : Targets(merged, dfa_alloc[d], c) # {}

\* C26: the iterator power_set returns for a non-empty set of nodes has
\* yielded every non-empty subset of the set at least once when it returns
\* None, which it does after at most as many items as twice the number of
\* subsets.
C26_PowerSetYieldsAll ==
    /\ pc = "power_done" =>
          \A S \in (SUBSET power.all_nodes) \ {{}} :
              \E i \in 1..Len(yielded) : yielded[i] = S
    /\ pc \in {"power_set", "power_done"} =>
          Len(yielded) <= 2 * (2 ^ Cardinality(power.all_nodes))

=============================================================================
